---- MODULE Spec2Model ----
(***************************************************************************)
(* ExpenseIt-API authentication subsystem: authService (register, login,   *)
(* account verification, refresh-rotation, logout) over the User,          *)
(* ActivationToken and RefreshToken tables, the token codec (jsonwebtoken  *)
(* sign/verify), the authController mapping of service results to HTTP     *)
(* responses, and the authentication middleware in front of the            *)
(* transaction handlers.                                                   *)
(*                                                                         *)
(* Every `await` of a store call is an interleaving point: a handler is    *)
(* one action per store call, with the synchronous code before and after   *)
(* it.  Time is measured in abstract clock units.                          *)
(***************************************************************************)
EXTENDS Integers, FiniteSets, Sequences, TLC

VARIABLES
  users,     \* User rows joined with their Account row
  rows,      \* RefreshToken rows
  activationTokens, \* ActivationToken rows
  mails,     \* verification emails handed to the mail transport
  nextUid,   \* User.id AUTOINCREMENT counter
  nextRid,   \* number of crypto.randomUUID() values drawn so far
  now,       \* Date.now()
  issued,    \* refresh tokens handed to clients, each with the rid it replaced
  pc,        \* position of each in-flight request
  arg,       \* input of each in-flight request
  loc,       \* local variables of each in-flight request across its awaits
  last,      \* the request just answered: handler, the await it returned
             \* from, input, result, and the request context it left
  exp,       \* the expiry string of the environment (REFRESH_TOKEN_EXP,
             \* ACCESS_TOKEN_EXP)
  ms         \* what parseExpiryToMs(exp) returned

vars == <<users, rows, activationTokens, mails, nextUid, nextRid, now, issued, pc, arg, loc, last, exp, ms>>

----------------------------------------------------------------------------
(* Bounds of the model *)

MaxRid == 3
MaxTicks == 2

Procs == {"r1", "r2"}
Emails == {"bob@x.com", "amy@x.com"}
Passwords == {"p1", "p2"}
RegisterPasswords == {"p1"}
Clients == {[ip |-> "10.0.0.1", userAgent |-> "curl"]}

\* User.id values: AUTOINCREMENT hands out 1, 2, ... to the registered emails
UserIds == 1..Cardinality(Emails)

----------------------------------------------------------------------------
(* Program constants, in clock units *)

\* the clock reading at start-up; any real clock is far past 1970 + TTL
StartTime == 10
MaxN == 15
\* parseExpiryToMs(process.env.REFRESH_TOKEN_EXP), default 7 days
RefreshTtl == 1
\* parseExpiryToMs(process.env.ACCESS_TOKEN_EXP || "15m")
AccessTtl == 1
\* an exp claim that has not elapsed at any clock reading of the model
FarExp == StartTime + MaxTicks + 1
\* an exp claim that elapses at the first advance of the clock
MidExp == StartTime + 1
\* the lifetime of an activation token
ActivationTtl == 1

NULL == "null"
NoTime == -1
NoRid == 0

----------------------------------------------------------------------------
(* Token codec *)

NoToken == [sig |-> "none", sub |-> 0, rid |-> NoRid, exp |-> 0]

\* jwt.sign(payload, secret): the token carries the payload's claims and is
\* bound to the secret it was signed with
signJwt(payload, secret) ==
  [sig |-> secret, sub |-> payload.sub, rid |-> payload.rid, exp |-> payload.exp]

\* jwt.verify(token, secret) at clock reading t: malformed and wrongly signed
\* tokens raise JsonWebTokenError, an elapsed exp claim raises
\* TokenExpiredError, otherwise the payload is returned
jwtVerify(token, secret, t) ==
  IF token.sig # secret THEN "JsonWebTokenError"
  ELSE IF t >= token.exp THEN "TokenExpiredError"
  ELSE "ok"

\* IssueTokens(userId): the exp claims are the TTLs themselves
IssueTokens(userId, uuid) ==
  [token |-> signJwt([sub |-> userId, rid |-> NoRid, exp |-> AccessTtl], "access"),
   refreshId |-> uuid,
   refreshToken |-> signJwt([sub |-> userId, rid |-> uuid, exp |-> RefreshTtl], "refresh")]

\* what a client can put in the refresh cookie: any string.  Strings that
\* are not tokens, tokens signed with another key (here the access secret),
\* and tokens signed with the refresh secret: those this service issued and
\* those of any other holder of the secret (e.g. authService.js
\* IssueTokens, which signs with expiresIn)
RefreshSigned ==
  [sig : {"refresh"}, sub : UserIds, rid : 1..MaxRid, exp : {FarExp}]
    \cup {[sig |-> "refresh", sub |-> 1, rid |-> 1, exp |-> MidExp]}
    \cup {[sig |-> "refresh", sub |-> 1, rid |-> NoRid, exp |-> FarExp]}

RawTokens ==
  RefreshSigned \cup {i.token : i \in issued}
    \cup {[sig |-> "malformed", sub |-> 0, rid |-> NoRid, exp |-> 0],
          [sig |-> "access", sub |-> 1, rid |-> NoRid, exp |-> FarExp]}

\* verifyJwt(token, secret): jwt.verify, then the payload must carry a sub.
\* "ok" when the payload is returned, else the error thrown.  (A payload
\* that is a bare string, the other throw, has no sub either.)
verifyJwt(token, secret, t) ==
  IF jwtVerify(token, secret, t) # "ok" THEN jwtVerify(token, secret, t)
  ELSE IF token.sub = 0 THEN "Token payload missing 'sub' field"
  ELSE "ok"

\* the bearer credentials a client can send: the access tokens login and
\* refresh issue, access tokens of any other holder of the access secret
\* with an exp claim ahead of the clock, a token without sub, a token
\* signed with the refresh secret, and a string that is not a token
AccessTokens ==
  {IssueTokens(u, NoRid).token : u \in UserIds}
    \cup [sig : {"access"}, sub : UserIds, rid : {NoRid}, exp : {MidExp, FarExp}]
    \cup {[sig |-> "access", sub |-> 0, rid |-> NoRid, exp |-> FarExp],
          [sig |-> "refresh", sub |-> 1, rid |-> 1, exp |-> FarExp],
          [sig |-> "malformed", sub |-> 0, rid |-> NoRid, exp |-> 0]}

\* the Authorization header: absent, or a scheme word followed by
\* parts - 1 further words, the first of which is the token
NoHeader == [scheme |-> "", parts |-> 0, token |-> NoToken]

Headers ==
  {NoHeader}
    \cup [scheme : {"Bearer", "bearer"}, parts : {2}, token : AccessTokens]
    \cup [scheme : {"Basic", "Bearer"}, parts : {1, 2, 3},
          token : {[sig |-> "access", sub |-> 1, rid |-> NoRid, exp |-> FarExp]}]

\* String.prototype.toLowerCase on the scheme words of the model
toLowerCase(word) ==
  IF word = "Bearer" THEN "bearer"
  ELSE IF word = "Basic" THEN "basic"
  ELSE word

----------------------------------------------------------------------------
(* Credential hasher *)

bcryptHash(password) == <<"bcrypt", password>>

bcryptCompare(password, hash) == hash = bcryptHash(password)

----------------------------------------------------------------------------
(* Store *)

NoUser == [id |-> 0, firstName |-> "", lastName |-> NULL, email |-> "",
           account |-> [password |-> <<>>, isVerified |-> FALSE]]

NoRow == [id |-> NoRid, userId |-> 0, createdAt |-> NoTime, expiresAt |-> NoTime,
          revokedAt |-> NoTime, ip |-> "", userAgent |-> ""]

\* prisma.user.findUnique({ where: { email }, include: { account: true } })
userFindUnique(email) ==
  IF \E u \in users : u.email = email
  THEN CHOOSE u \in users : u.email = email
  ELSE NoUser

\* prisma.refreshToken.findUnique({ where: { id } })
refreshTokenFindUnique(table, id) ==
  IF \E r \in table : r.id = id
  THEN CHOOSE r \in table : r.id = id
  ELSE NoRow

\* the User table without User_email_key
UserInsertViolationNone(email) == FALSE

\* User_email_key
UserInsertViolation(email) == \E u \in users : u.email = email

\* the table with its primary key only, without RefreshToken_userId_key
RefreshTokenInsertViolationIdOnly(table, row) ==
  \E r \in table : r.id = row.id

\* PRIMARY KEY ("id") and RefreshToken_userId_key of table RefreshToken
RefreshTokenInsertViolation(table, row) ==
  \/ \E r \in table : r.id = row.id
  \/ \E r \in table : r.userId = row.userId

\* prisma.refreshToken.create({ data }): "" for success, else the error
refreshTokenCreateError(table, row) ==
  IF RefreshTokenInsertViolation(table, row) THEN "P2002" ELSE ""

\* prisma.refreshToken.update({ where: { id }, data: { revokedAt } }):
\* the record must exist
refreshTokenUpdateError(table, id) ==
  IF \E r \in table : r.id = id THEN "" ELSE "P2025"

\* an update that clears revokedAt on a row already revoked
refreshTokenRevokeToggle(table, id, t) ==
  {IF r.id = id
   THEN [r EXCEPT !.revokedAt = IF r.revokedAt = NoTime THEN t ELSE NoTime]
   ELSE r : r \in table}

\* an update without its where clause: every row is revoked
refreshTokenRevokeEveryRow(table, id, t) ==
  {[r EXCEPT !.revokedAt = t] : r \in table}

refreshTokenRevoke(table, id, t) ==
  {IF r.id = id THEN [r EXCEPT !.revokedAt = t] ELSE r : r \in table}

\* the RefreshToken row login and refresh build
NewRefreshRowExpiringAtOnce(id, userId, ip, userAgent, date) ==
  [id |-> id, userId |-> userId, createdAt |-> date, expiresAt |-> date,
   revokedAt |-> NoTime, ip |-> ip, userAgent |-> userAgent]

NewRefreshRow(id, userId, ip, userAgent, date) ==
  [id |-> id, userId |-> userId, createdAt |-> date, expiresAt |-> date + RefreshTtl,
   revokedAt |-> NoTime, ip |-> ip, userAgent |-> userAgent]

\* prisma.$transaction([create(newRow), update(rid)]): both writes or none
RotationTransaction(table, newRow, rid, t) ==
  LET e1 == refreshTokenCreateError(table, newRow)
      t1 == table \cup {newRow}
      e2 == refreshTokenUpdateError(t1, rid)
  IN IF e1 # "" THEN [error |-> e1, table |-> table]
     ELSE IF e2 # "" THEN [error |-> e2, table |-> table]
     ELSE [error |-> "", table |-> refreshTokenRevoke(t1, rid, t)]

\* the ActivationToken table: token (unique), userId, expiresAt, isExpired
NoActivationToken == [token |-> 0, userId |-> 0, expiresAt |-> NoTime,
                      isExpired |-> FALSE]

\* the row register creates with the user: unconsumed, ActivationTtl ahead
NewActivationToken(token, userId, date) ==
  [token |-> token, userId |-> userId, expiresAt |-> date + ActivationTtl,
   isExpired |-> FALSE]

\* prisma.activationToken.findUnique({ where: { token } })
activationTokenFindUnique(table, token) ==
  IF \E k \in table : k.token = token
  THEN CHOOSE k \in table : k.token = token
  ELSE NoActivationToken

LiveRows(userId) == {r \in rows : r.userId = userId /\ r.revokedAt = NoTime}

----------------------------------------------------------------------------
(* Results of the service *)

\* the user projection of a result: id, firstName, lastName, email
NoSanitized == [id |-> 0, firstName |-> "", lastName |-> NULL, email |-> ""]

NoData == [user |-> NoSanitized, accessToken |-> NoToken, refreshToken |-> NoToken]

NoRes == [ok |-> FALSE, code |-> 0, message |-> "", internal |-> "", data |-> NoData]

Fail(code, message, internal) ==
  [ok |-> FALSE, code |-> code, message |-> message, internal |-> internal,
   data |-> NoData]

\* an exception that leaves the service function
Threw(error) == Fail(0, "<thrown>", error)

\* the user row as the store returned it
SanitizedWholeRow(user) == user

Sanitized(user) == [id |-> user.id, firstName |-> user.firstName,
                    lastName |-> user.lastName, email |-> user.email]

NoLoc == [user |-> NoUser, tokenRecord |-> NoRow, tokens |-> IssueTokens(0, NoRid),
          activationToken |-> NoActivationToken]

\* the claims of a verified token as attached to a request, sub 0 for none
NoPayload == [sub |-> 0, exp |-> 0]

\* the request context of a request no middleware has touched
NoReq == [user |-> NoPayload, payload |-> NoPayload, next |-> FALSE]

\* no response is waiting to be sent
NoLast == [op |-> "none", at |-> "idle", arg |-> NoToken, res |-> NoRes,
           req |-> NoReq]

----------------------------------------------------------------------------
\* expiry strings: decimal digits followed by a suffix, e.g. "15m" is
\* [n |-> 15, suffix |-> "m"]; a string of digits alone has suffix ""
Suffixes == {"d", "h", "m", "s", ""}

ExpiryStrings == [n : 0..MaxN, suffix : Suffixes]

\* the handlers take their TTLs as configured (RefreshTtl, AccessTtl)
NoExpiry == [n |-> 0, suffix |-> "unset"]

NoMs == -1

Init ==
  /\ users = {}
  /\ rows = {}
  /\ activationTokens = {}
  /\ mails = {}
  /\ nextUid = 1
  /\ nextRid = 1
  /\ now = StartTime
  /\ issued = {}
  /\ pc = [p \in Procs |-> "idle"]
  /\ arg = [p \in Procs |-> NoToken]
  /\ loc = [p \in Procs |-> NoLoc]
  /\ last = NoLast
  /\ exp = NoExpiry
  /\ ms = NoMs

\* the service returns and the controller answers in the same turn
Finish(p, o, a, r) ==
  /\ pc' = [pc EXCEPT ![p] = "idle"]
  /\ arg' = [arg EXCEPT ![p] = NoToken]
  /\ loc' = [loc EXCEPT ![p] = NoLoc]
  /\ last' = [op |-> o, at |-> pc[p], arg |-> a, res |-> r, req |-> NoReq]

\* the request suspends at an await
Suspend(p, o, a, at, l) ==
  /\ pc' = [pc EXCEPT ![p] = at]
  /\ arg' = [arg EXCEPT ![p] = a]
  /\ loc' = [loc EXCEPT ![p] = l]
  /\ UNCHANGED last

----------------------------------------------------------------------------
(* emailService *)

\* const token = "some-unique-token"
SomeUniqueToken == 99

\* sendVerificationEmail(email, activationToken): the mail addressed to
\* email whose link carries the token the function sets itself; its
\* promise is pending until the transport answers
sendVerificationEmail(email, activationToken) ==
  [to |-> email, token |-> SomeUniqueToken, state |-> "pending"]

\* a rejected send undoing the registration
sendVerificationEmailRollback(userTable, mail) ==
  {u \in userTable : u.email # mail.to}

\* .catch((err) => console.error(...)): the User table after a rejected send
sendVerificationEmailCatch(userTable, mail) == userTable

\* transporter.sendMail resolves or rejects
SendMailSettles ==
  /\ last = NoLast
  /\ \E m \in mails, outcome \in {"sent", "failed"} :
       /\ m.state = "pending"
       /\ mails' = (mails \ {m}) \cup {[m EXCEPT !.state = outcome]}
       /\ users' = IF outcome = "failed"
                    THEN sendVerificationEmailCatch(users, m) ELSE users
  /\ UNCHANGED <<exp, ms, rows, activationTokens, nextUid, nextRid, now, issued, pc, arg,
                 loc, last>>

----------------------------------------------------------------------------
(* authService.register *)

RegisterExisting == Fail(409, "Email already in use", "")

\* findUnique by email, the 409 exit, bcrypt.hash
RegisterLookup(p) ==
  /\ last = NoLast
  /\ pc[p] = "idle"
  /\ \E email \in Emails, password \in RegisterPasswords, fault \in BOOLEAN :
       LET a == [firstName |-> "Bob", email |-> email, password |-> password] IN
       /\ IF fault
          THEN Finish(p, "register", a, Threw("StoreError"))
          ELSE IF userFindUnique(email) # NoUser
          THEN Finish(p, "register", a, RegisterExisting)
          ELSE Suspend(p, "register", a, "register_create", NoLoc)
  /\ UNCHANGED <<exp, ms, users, mails, rows, activationTokens, nextUid, nextRid, now, issued>>

\* prisma.user.create with the nested account and activation token; on
\* success the controller starts the verification email and answers
\* without waiting for it
RegisterCreate(p) ==
  /\ last = NoLast
  /\ pc[p] = "register_create"
  /\ \E fault \in BOOLEAN :
       LET a == arg[p]
           user == [id |-> nextUid, firstName |-> a.firstName, lastName |-> NULL,
                    email |-> a.email,
                    account |-> [password |-> bcryptHash(a.password),
                                 isVerified |-> FALSE]]
       IN
       IF fault \/ UserInsertViolation(a.email)
       THEN /\ Finish(p, "register", a,
                      Fail(500, "Failed to register user",
                           IF fault THEN "StoreError" ELSE "P2002"))
            /\ UNCHANGED <<users, mails, activationTokens, nextUid>>
       ELSE /\ users' = users \cup {user}
            /\ activationTokens' =
                 activationTokens \cup {NewActivationToken(nextUid, nextUid, now)}
            /\ mails' = mails \cup {sendVerificationEmail(a.email, nextUid)}
            /\ nextUid' = nextUid + 1
            /\ Finish(p, "register", a,
                      [ok |-> TRUE, code |-> 201, message |-> "", internal |-> "",
                       data |-> [NoData EXCEPT !.user = Sanitized(user)]])
  /\ UNCHANGED <<exp, ms, rows, nextRid, now, issued>>

----------------------------------------------------------------------------
(* authService.verify *)

VerifyInvalid == Fail(400, "Invalid or expired verification token", "")

VerifyFailed(error) == Fail(500, "Failed to verify account", error)

VerifyOk ==
  [ok |-> TRUE, code |-> 200, message |-> "Account verified successfully",
   internal |-> "", data |-> NoData]

\* the check without the consumed flag
VerifyRejectedIgnoringConsumed(activationToken, t) ==
  \/ activationToken = NoActivationToken
  \/ activationToken.expiresAt < t

\* the check without the expiry date
VerifyRejectedIgnoringExpiry(activationToken, t) ==
  \/ activationToken = NoActivationToken
  \/ activationToken.isExpired

\* the token is not found, is consumed already, or has expiresAt in the past
VerifyRejected(activationToken, t) ==
  \/ activationToken = NoActivationToken
  \/ activationToken.isExpired
  \/ activationToken.expiresAt < t

\* the account update alone
VerifyTransactionAccountOnly(userTable, tokenTable, activationToken) ==
  [users |-> {IF u.id = activationToken.userId
              THEN [u EXCEPT !.account.isVerified = TRUE] ELSE u : u \in userTable},
   activationTokens |-> tokenTable]

\* account.update({ where: { userId }, data: { isVerified: true } }) and
\* activationToken.update({ where: { token }, data: { isExpired: true } })
\* as one atomic pair
VerifyTransaction(userTable, tokenTable, activationToken) ==
  [users |-> {IF u.id = activationToken.userId
              THEN [u EXCEPT !.account.isVerified = TRUE] ELSE u : u \in userTable},
   activationTokens |-> {IF k.token = activationToken.token
                         THEN [k EXCEPT !.isExpired = TRUE] ELSE k : k \in tokenTable}]

\* activationToken.findUnique by token value, the InvalidOrExpiredToken exit
VerifyLookup(p) ==
  /\ last = NoLast
  /\ pc[p] = "idle"
  /\ \E token \in UserIds \cup {m.token : m \in mails}, fault \in BOOLEAN :
       LET a == [token |-> token]
           activationToken == activationTokenFindUnique(activationTokens, token)
       IN
       IF fault
       THEN Finish(p, "verify", a, VerifyFailed("StoreError"))
       ELSE IF VerifyRejected(activationToken, now)
       THEN Finish(p, "verify", a, VerifyInvalid)
       ELSE Suspend(p, "verify", a, "verify_tx",
                    [NoLoc EXCEPT !.activationToken = activationToken])
  /\ UNCHANGED <<exp, ms, users, mails, rows, activationTokens, nextUid, nextRid, now, issued>>

\* the update pair, the result
VerifyTx(p) ==
  /\ last = NoLast
  /\ pc[p] = "verify_tx"
  /\ \E fault \in BOOLEAN :
       LET tx == VerifyTransaction(users, activationTokens, loc[p].activationToken) IN
       IF fault
       THEN /\ Finish(p, "verify", arg[p], VerifyFailed("StoreError"))
            /\ UNCHANGED <<users, activationTokens>>
       ELSE /\ users' = tx.users
            /\ activationTokens' = tx.activationTokens
            /\ Finish(p, "verify", arg[p], VerifyOk)
  /\ UNCHANGED <<exp, ms, rows, mails, nextUid, nextRid, now, issued>>

----------------------------------------------------------------------------
(* authService.login *)

LoginNotFound == Fail(401, "Authentication failed", "")

LoginWrongPassword == Fail(401, "Authentication failed: Incorrect password", "")

LoginFailed(error) == Fail(500, "Failed to login", error)

LoginOk(user, tokens) ==
  [ok |-> TRUE, code |-> 200, message |-> "", internal |-> "",
   data |-> [user |-> Sanitized(user), accessToken |-> tokens.token,
             refreshToken |-> tokens.refreshToken]]

\* login refusing an account that is not verified
LoginVerifiedOnly(p) ==
  /\ last = NoLast
  /\ pc[p] = "idle"
  /\ \E email \in Emails, password \in Passwords, client \in Clients, fault \in BOOLEAN :
       LET a == [email |-> email, password |-> password, ip |-> client.ip,
                 userAgent |-> client.userAgent]
           user == userFindUnique(email)
           tokens == IssueTokens(user.id, nextRid)
           row == NewRefreshRow(tokens.refreshId, user.id, a.ip, a.userAgent, now)
           error == refreshTokenCreateError(rows, row)
       IN
       IF fault
       THEN /\ Finish(p, "login", a, LoginFailed("StoreError"))
            /\ UNCHANGED <<rows, issued, nextRid>>
       ELSE IF user = NoUser
       THEN /\ Finish(p, "login", a, LoginNotFound)
            /\ UNCHANGED <<rows, issued, nextRid>>
       ELSE IF ~bcryptCompare(password, user.account.password)
       THEN /\ Finish(p, "login", a, LoginWrongPassword)
            /\ UNCHANGED <<rows, issued, nextRid>>
       ELSE IF ~user.account.isVerified
       THEN /\ Finish(p, "login", a, Fail(403, "Account not verified", ""))
            /\ UNCHANGED <<rows, issued, nextRid>>
       ELSE /\ nextRid <= MaxRid
            /\ nextRid' = nextRid + 1
            /\ IF error # ""
               THEN /\ Finish(p, "login", a, LoginFailed(error))
                    /\ UNCHANGED <<rows, issued>>
               ELSE /\ rows' = rows \cup {row}
                    /\ issued' = issued \cup {[token |-> tokens.refreshToken,
                                                from |-> NoRid]}
                    /\ Finish(p, "login", a, LoginOk(user, tokens))
  /\ UNCHANGED <<exp, ms, users, mails, activationTokens, nextUid, now>>


\* findUnique by email, the two 401 exits, bcrypt.compare, IssueTokens,
\* Date.now(), prisma.refreshToken.create, the sanitized result.  The first
\* await reads only User rows, which no handler changes or deletes, so the
\* handler is one step taken at the time of its create.
Login(p) ==
  /\ last = NoLast
  /\ pc[p] = "idle"
  /\ \E email \in Emails, password \in Passwords, client \in Clients, fault \in BOOLEAN :
       LET a == [email |-> email, password |-> password, ip |-> client.ip,
                 userAgent |-> client.userAgent]
           user == userFindUnique(email)
           tokens == IssueTokens(user.id, nextRid)
           row == NewRefreshRow(tokens.refreshId, user.id, a.ip, a.userAgent, now)
           error == refreshTokenCreateError(rows, row)
       IN
       IF fault
       THEN /\ Finish(p, "login", a, LoginFailed("StoreError"))
            /\ UNCHANGED <<rows, issued, nextRid>>
       ELSE IF user = NoUser
       THEN /\ Finish(p, "login", a, LoginNotFound)
            /\ UNCHANGED <<rows, issued, nextRid>>
       ELSE IF ~bcryptCompare(password, user.account.password)
       THEN /\ Finish(p, "login", a, LoginWrongPassword)
            /\ UNCHANGED <<rows, issued, nextRid>>
       ELSE /\ nextRid <= MaxRid
            /\ nextRid' = nextRid + 1
            /\ IF error # ""
               THEN /\ Finish(p, "login", a, LoginFailed(error))
                    /\ UNCHANGED <<rows, issued>>
               ELSE /\ rows' = rows \cup {row}
                    /\ issued' = issued \cup {[token |-> tokens.refreshToken,
                                                from |-> NoRid]}
                    /\ Finish(p, "login", a, LoginOk(user, tokens))
  /\ UNCHANGED <<exp, ms, users, mails, activationTokens, nextUid, now>>

----------------------------------------------------------------------------
(* authService.refresh *)

RefreshInvalid(internal) == Fail(401, "Invalid refresh token", internal)

RefreshFailed(error) == Fail(500, "Failed to refresh tokens", error)

RefreshOk(tokens) ==
  [ok |-> TRUE, code |-> 200, message |-> "", internal |-> "",
   data |-> [NoData EXCEPT !.accessToken = tokens.token,
                           !.refreshToken = tokens.refreshToken]]

\* the row check without the comparison of the owner with sub
RefreshRowRejectedIgnoringOwner(tokenRecord, sub) ==
  \/ tokenRecord = NoRow
  \/ tokenRecord.revokedAt # NoTime

\* !tokenRecord || tokenRecord.userId !== sub || tokenRecord.revokedAt
RefreshRowRejected(tokenRecord, sub) ==
  \/ tokenRecord = NoRow
  \/ tokenRecord.userId # sub
  \/ tokenRecord.revokedAt # NoTime

\* new Date(tokenRecord.expiresAt).getTime() < Date.now()
RefreshRowExpired(tokenRecord, t) == tokenRecord.expiresAt < t

\* the row check with a message of its own for a revoked row
RefreshRowCheckRevokedMessage(tokenRecord, sub, t) ==
  IF tokenRecord = NoRow \/ tokenRecord.userId # sub
  THEN RefreshInvalid("Refresh token not found or revoked")
  ELSE IF tokenRecord.revokedAt # NoTime
  THEN Fail(401, "Token has been revoked", "Refresh token not found or revoked")
  ELSE IF RefreshRowExpired(tokenRecord, t)
  THEN RefreshInvalid("Refresh token expired")
  ELSE NoRes

\* the result refresh returns once the row has been read, NoRes to go on
RefreshRowCheck(tokenRecord, sub, t) ==
  IF RefreshRowRejected(tokenRecord, sub)
  THEN RefreshInvalid("Refresh token not found or revoked")
  ELSE IF RefreshRowExpired(tokenRecord, t)
  THEN RefreshInvalid("Refresh token expired")
  ELSE NoRes

\* the error the catch of refresh sees before the row is read, "" for none
RefreshVerifyError(token, t) ==
  IF jwtVerify(token, "refresh", t) # "ok" THEN jwtVerify(token, "refresh", t)
  ELSE IF token.rid = NoRid THEN "PrismaClientValidationError"
  ELSE ""

\* refresh revoking the row it read when it rejects the token
RefreshLookupRevokingOnReject(p) ==
  /\ last = NoLast
  /\ pc[p] = "idle"
  /\ \E token \in RawTokens :
       LET verr == RefreshVerifyError(token, now)
           tokenRecord == refreshTokenFindUnique(rows, token.rid)
           check == RefreshRowCheck(tokenRecord, token.sub, now)
       IN
       \/ /\ verr # ""
          /\ Finish(p, "refresh", token, RefreshFailed(verr))
          /\ UNCHANGED <<nextRid, rows>>
       \/ /\ verr = ""
          /\ Finish(p, "refresh", token, RefreshFailed("StoreError"))
          /\ UNCHANGED <<nextRid, rows>>
       \/ /\ verr = ""
          /\ check # NoRes
          /\ Finish(p, "refresh", token, check)
          /\ rows' = refreshTokenRevoke(rows, token.rid, now)
          /\ UNCHANGED nextRid
       \/ /\ verr = ""
          /\ check = NoRes
          /\ nextRid <= MaxRid
          /\ nextRid' = nextRid + 1
          /\ Suspend(p, "refresh", token, "refresh_tx",
                     [NoLoc EXCEPT !.tokenRecord = tokenRecord,
                                   !.tokens = IssueTokens(token.sub, nextRid)])
          /\ UNCHANGED rows
  /\ UNCHANGED <<exp, ms, users, mails, activationTokens, nextUid, now, issued>>

\* jwt.verify, findUnique by rid, the two 401 exits, IssueTokens
RefreshLookup(p) ==
  /\ last = NoLast
  /\ pc[p] = "idle"
  /\ \E token \in RawTokens :
       LET verr == RefreshVerifyError(token, now)
           tokenRecord == refreshTokenFindUnique(rows, token.rid)
           check == RefreshRowCheck(tokenRecord, token.sub, now)
       IN
       \/ /\ verr # ""
          /\ Finish(p, "refresh", token, RefreshFailed(verr))
          /\ UNCHANGED nextRid
       \/ /\ verr = ""
          /\ Finish(p, "refresh", token, RefreshFailed("StoreError"))
          /\ UNCHANGED nextRid
       \/ /\ verr = ""
          /\ check # NoRes
          /\ Finish(p, "refresh", token, check)
          /\ UNCHANGED nextRid
       \/ /\ verr = ""
          /\ check = NoRes
          /\ nextRid <= MaxRid
          /\ nextRid' = nextRid + 1
          /\ Suspend(p, "refresh", token, "refresh_tx",
                     [NoLoc EXCEPT !.tokenRecord = tokenRecord,
                                   !.tokens = IssueTokens(token.sub, nextRid)])
  /\ UNCHANGED <<exp, ms, users, mails, rows, activationTokens, nextUid, now, issued>>

\* Date.now(), prisma.$transaction([create, update]), the result
RefreshTx(p) ==
  /\ last = NoLast
  /\ pc[p] = "refresh_tx"
  /\ \E fault \in BOOLEAN :
       LET token == arg[p]
           l == loc[p]
           row == NewRefreshRow(l.tokens.refreshId, token.sub, l.tokenRecord.ip,
                                l.tokenRecord.userAgent, now)
           tx == IF fault THEN [error |-> "StoreError", table |-> rows]
                 ELSE RotationTransaction(rows, row, token.rid, now)
       IN
       IF tx.error # ""
       THEN /\ Finish(p, "refresh", token, RefreshFailed(tx.error))
            /\ UNCHANGED <<rows, issued>>
       ELSE /\ rows' = tx.table
            /\ issued' = issued \cup {[token |-> l.tokens.refreshToken, from |-> token.rid]}
            /\ Finish(p, "refresh", token, RefreshOk(l.tokens))
  /\ UNCHANGED <<exp, ms, users, mails, activationTokens, nextUid, nextRid, now>>

----------------------------------------------------------------------------
(* authService.logout *)

LogoutInvalid == Fail(400, "Invalid refresh token", "JWT verification failed")

LogoutFailed(error) == Fail(500, "Failed to logout", error)

LogoutOk ==
  [ok |-> TRUE, code |-> 200, message |-> "Logged out successfully",
   internal |-> "", data |-> NoData]

\* what logout returns for a token when the store answers its update
LogoutResult(token, table, t) ==
  IF jwtVerify(token, "refresh", t) # "ok"
  THEN LogoutFailed(jwtVerify(token, "refresh", t))
  ELSE IF token.rid = NoRid THEN LogoutInvalid
  ELSE IF refreshTokenUpdateError(table, token.rid) # ""
  THEN LogoutFailed(refreshTokenUpdateError(table, token.rid))
  ELSE LogoutOk

\* jwt.verify, the rid check, prisma.refreshToken.update
Logout(p) ==
  /\ last = NoLast
  /\ pc[p] = "idle"
  /\ \E token \in RawTokens :
       LET result == LogoutResult(token, rows, now) IN
       \/ /\ jwtVerify(token, "refresh", now) = "ok"
          /\ token.rid # NoRid
          /\ Finish(p, "logout", token, LogoutFailed("StoreError"))
          /\ UNCHANGED rows
       \/ /\ ~result.ok
          /\ Finish(p, "logout", token, result)
          /\ UNCHANGED rows
       \/ /\ result.ok
          /\ rows' = refreshTokenRevoke(rows, token.rid, now)
          /\ Finish(p, "logout", token, result)
  /\ UNCHANGED <<exp, ms, users, mails, activationTokens, nextUid, nextRid, now, issued>>

----------------------------------------------------------------------------
(* authController *)

\* res.status(result.code).json({ message: result.message }) for a failure,
\* res.status(result.code).json({ accessToken }) with the cookie for a success
refreshResponse(result) ==
  IF ~result.ok
  THEN [status |-> result.code, message |-> result.message,
        accessToken |-> NoToken, cookie |-> NoToken]
  ELSE [status |-> result.code, message |-> "",
        accessToken |-> result.data.accessToken, cookie |-> result.data.refreshToken]

\* res.cookie("refreshToken", refreshToken, { path: "/auth/refresh", ... })
\* of the login controller
loginSetCookies(result) ==
  IF result.ok
  THEN {[name |-> "refreshToken", path |-> "/auth/refresh",
         value |-> result.data.refreshToken]}
  ELSE {}

\* the two res.cookie calls of the refresh controller
refreshSetCookies(result) ==
  IF result.ok
  THEN {[name |-> "refreshToken", path |-> path, value |-> result.data.refreshToken] :
          path \in {"/auth/refresh", "/auth/logout"}}
  ELSE {}

\* req.cookies.refreshToken of a request to path from a client that holds
\* the cookies: the cookie whose path is the request's, NoToken for none
cookieSent(cookies, path) ==
  IF \E c \in cookies : c.name = "refreshToken" /\ c.path = path
  THEN (CHOOSE c \in cookies : c.name = "refreshToken" /\ c.path = path).value
  ELSE NoToken

\* the logout controller: the 400 exit for a request without the cookie,
\* else the result of the service
logoutController(rawRefresh, table, t) ==
  IF rawRefresh = NoToken THEN Fail(400, "No refresh token provided", "")
  ELSE LogoutResult(rawRefresh, table, t)

\* errorHandler: res.status(err.code || 500).json({ code, message:
\* err.message, stack }), for an error without a code
errorHandler(err) ==
  [status |-> 500, message |-> err, user |-> NoSanitized]

\* the register controller: res.status(result.code).json({ message }) or
\* json({ user }); an exception of the service goes to next(err)
registerResponse(result) ==
  IF result.message = "<thrown>" THEN errorHandler(result.internal)
  ELSE IF ~result.ok
  THEN [status |-> result.code, message |-> result.message, user |-> NoSanitized]
  ELSE [status |-> result.code, message |-> "", user |-> result.data.user]

\* res.status(result.code).json({ message }) or json({ accessToken, user })
loginResponse(result) ==
  IF ~result.ok
  THEN [status |-> result.code, message |-> result.message,
        accessToken |-> NoToken, user |-> NoSanitized, cookie |-> NoToken]
  ELSE [status |-> result.code, message |-> "",
        accessToken |-> result.data.accessToken, user |-> result.data.user,
        cookie |-> result.data.refreshToken]

----------------------------------------------------------------------------
(* authenticationHandler and the transaction handlers behind it *)

\* the middleware answering a malformed header with 400
authenticationHandlerFormat400(header, t) ==
  IF header = NoHeader
  THEN [res |-> Fail(401, "Unauthorized: Missing Authorization header", ""),
        req |-> NoReq]
  ELSE IF header.parts # 2 \/ toLowerCase(header.scheme) # "bearer"
  THEN [res |-> Fail(400, "Unauthorized: Invalid Authorization header format", ""),
        req |-> NoReq]
  ELSE IF verifyJwt(header.token, "access", t) # "ok"
  THEN [res |-> Fail(401, "Unauthorized: Invalid or expired token", ""),
        req |-> NoReq]
  ELSE [res |-> NoRes,
        req |-> [NoReq EXCEPT !.payload = [sub |-> header.token.sub,
                                           exp |-> header.token.exp],
                              !.next = TRUE]]

\* the middleware asking the store for a live session of the token's user
authenticationHandlerLiveSession(header, t) ==
  IF header = NoHeader
  THEN [res |-> Fail(401, "Unauthorized: Missing Authorization header", ""),
        req |-> NoReq]
  ELSE IF header.parts # 2 \/ toLowerCase(header.scheme) # "bearer"
  THEN [res |-> Fail(401, "Unauthorized: Invalid Authorization header format", ""),
        req |-> NoReq]
  ELSE IF verifyJwt(header.token, "access", t) # "ok" \/ LiveRows(header.token.sub) = {}
  THEN [res |-> Fail(401, "Unauthorized: Invalid or expired token", ""),
        req |-> NoReq]
  ELSE [res |-> NoRes,
        req |-> [NoReq EXCEPT !.payload = [sub |-> header.token.sub,
                                           exp |-> header.token.exp],
                              !.next = TRUE]]

\* the middleware verifying with the refresh secret
authenticationHandlerRefreshSecret(header, t) ==
  IF header = NoHeader
  THEN [res |-> Fail(401, "Unauthorized: Missing Authorization header", ""),
        req |-> NoReq]
  ELSE IF header.parts # 2 \/ toLowerCase(header.scheme) # "bearer"
  THEN [res |-> Fail(401, "Unauthorized: Invalid Authorization header format", ""),
        req |-> NoReq]
  ELSE IF verifyJwt(header.token, "refresh", t) # "ok"
  THEN [res |-> Fail(401, "Unauthorized: Invalid or expired token", ""),
        req |-> NoReq]
  ELSE [res |-> NoRes,
        req |-> [NoReq EXCEPT !.payload = [sub |-> header.token.sub,
                                           exp |-> header.token.exp],
                              !.next = TRUE]]

\* the header checks, verifyJwt with the access secret, req.payload =
\* payload and next(), or the 401 response
authenticationHandler(header, t) ==
  IF header = NoHeader
  THEN [res |-> Fail(401, "Unauthorized: Missing Authorization header", ""),
        req |-> NoReq]
  ELSE IF header.parts # 2 \/ toLowerCase(header.scheme) # "bearer"
  THEN [res |-> Fail(401, "Unauthorized: Invalid Authorization header format", ""),
        req |-> NoReq]
  ELSE IF verifyJwt(header.token, "access", t) # "ok"
  THEN [res |-> Fail(401, "Unauthorized: Invalid or expired token", ""),
        req |-> NoReq]
  ELSE [res |-> NoRes,
        req |-> [NoReq EXCEPT !.payload = [sub |-> header.token.sub,
                                           exp |-> header.token.exp],
                              !.next = TRUE]]

\* const userId = req.user?.sub
transactionUserId(req) == req.user.sub

\* createTransaction up to its first await: the userId read and the 401
\* exit; addTransaction and what follows are left out
createTransaction(req) ==
  IF transactionUserId(req) = 0
  THEN Fail(401, "Unauthorized", "")
  ELSE [ok |-> TRUE, code |-> 201, message |-> "", internal |-> "", data |-> NoData]

\* POST /transactions: the middleware and, when it calls next(), the handler
PostTransaction(p) ==
  /\ last = NoLast
  /\ pc[p] = "idle"
  /\ \E header \in Headers :
       LET mw == authenticationHandler(header, now) IN
       last' = [op |-> "createTransaction", at |-> "idle", arg |-> header,
                res |-> IF mw.req.next THEN createTransaction(mw.req) ELSE mw.res,
                req |-> mw.req]
  /\ UNCHANGED <<exp, ms, users, mails, rows, activationTokens, nextUid, nextRid, now, issued,
                 pc, arg, loc>>

----------------------------------------------------------------------------
\* the controller sends the response in the turn in which the service
\* returned; no other handler runs in between
Respond ==
  /\ last # NoLast
  /\ last' = NoLast
  /\ UNCHANGED <<exp, ms, users, mails, rows, activationTokens, nextUid, nextRid, now, issued, pc, arg, loc>>

\* the clock advances
Tick ==
  /\ last = NoLast
  /\ now < StartTime + MaxTicks
  /\ now' = now + 1
  /\ UNCHANGED <<exp, ms, users, mails, rows, activationTokens, nextUid, nextRid, issued, pc, arg, loc, last>>

----------------------------------------------------------------------------
(* timeUtils *)

\* /^\d+<unit>$/.test(exp): digits, then the unit, then nothing
regexTest(unit, e) == e \in ExpiryStrings /\ e.suffix = unit

\* parseInt(exp, 10): the value of the leading digits
parseInt(e) == e.n

\* days, hours, and 7 days for every other string
parseExpiryToMs(e) ==
  IF regexTest("d", e) THEN parseInt(e) * 24 * 60 * 60 * 1000
  ELSE IF regexTest("h", e) THEN parseInt(e) * 60 * 60 * 1000
  ELSE 7 * 24 * 60 * 60 * 1000

\* a process starts with an expiry string in its environment
InitTime ==
  /\ users = {}
  /\ rows = {}
  /\ activationTokens = {}
  /\ mails = {}
  /\ nextUid = 1
  /\ nextRid = 1
  /\ now = StartTime
  /\ issued = {}
  /\ pc = [p \in Procs |-> "idle"]
  /\ arg = [p \in Procs |-> NoToken]
  /\ loc = [p \in Procs |-> NoLoc]
  /\ last = NoLast
  /\ exp \in ExpiryStrings
  /\ ms = NoMs

\* one call of parseExpiryToMs on the configured string
ParseExpiry ==
  /\ exp # NoExpiry
  /\ ms = NoMs
  /\ ms' = parseExpiryToMs(exp)
  /\ UNCHANGED <<users, mails, rows, activationTokens, nextUid, nextRid, now, issued,
                 pc, arg, loc, last, exp>>

NextTime == ParseExpiry

SpecTime == InitTime /\ [][NextTime]_vars

\* the session handlers: they read the User rows register creates and
\* read and write the RefreshToken rows; none of them reads or writes
\* Account.isVerified or an ActivationToken row
NextSession ==
  \/ \E p \in Procs : RegisterLookup(p)
  \/ \E p \in Procs : RegisterCreate(p)
  \/ \E p \in Procs : Login(p)
  \/ \E p \in Procs : RefreshLookup(p)
  \/ \E p \in Procs : RefreshTx(p)
  \/ \E p \in Procs : Logout(p)
  \/ \E p \in Procs : PostTransaction(p)
  \/ Respond
  \/ Tick

\* the account handlers and the mail transport: they read and write the
\* User, Account and ActivationToken rows and the mails; none of them
\* reads or writes a RefreshToken row
NextAccount ==
  \/ \E p \in Procs : RegisterLookup(p)
  \/ \E p \in Procs : RegisterCreate(p)
  \/ \E p \in Procs : VerifyLookup(p)
  \/ \E p \in Procs : VerifyTx(p)
  \/ SendMailSettles
  \/ Respond
  \/ Tick

Next == NextSession \/ NextAccount

\* the whole service
Spec == Init /\ [][Next]_vars

\* the service restricted to one group of handlers.  The two groups share
\* only the rows register inserts, which neither group changes afterwards
\* except for Account.isVerified, so a property of one group's variables
\* that holds under the restriction holds under Spec.
SpecSession == Init /\ [][NextSession]_vars

SpecAccount == Init /\ [][NextAccount]_vars

\* registration, verification and login: the handlers that write and read
\* the User and Account rows
NextLogin ==
  \/ \E p \in Procs : RegisterLookup(p)
  \/ \E p \in Procs : RegisterCreate(p)
  \/ \E p \in Procs : VerifyLookup(p)
  \/ \E p \in Procs : VerifyTx(p)
  \/ \E p \in Procs : Login(p)
  \/ Respond
  \/ Tick

SpecLogin == Init /\ [][NextLogin]_vars
----------------------------------------------------------------------------
(* Properties *)

\* the cause for which refresh rejects a verified token at the row check
RejectCause(token) ==
  LET tokenRecord == refreshTokenFindUnique(rows, token.rid) IN
  IF tokenRecord = NoRow THEN "absent"
  ELSE IF tokenRecord.userId # token.sub THEN "owner"
  ELSE IF tokenRecord.revokedAt # NoTime THEN "revoked"
  ELSE "none"

\* the refresh just answered got past jwt.verify, the store answered its
\* findUnique, and it returned before its transaction
RefreshReadRow ==
  /\ last.op = "refresh"
  /\ last.at = "idle"
  /\ RefreshVerifyError(last.arg, now) = ""
  /\ last.res.internal # "StoreError"

\* the refresh tokens that successful logins returned
LoginIssued == {i.token : i \in {j \in issued : j.from = NoRid}}

\* C1: after every successful login and every successful refresh, exactly
\* one RefreshToken row of that user has revokedAt = null.
C1_SingleActiveRefreshToken ==
  (last.op \in {"login", "refresh"} /\ last.res.ok)
    => Cardinality(LiveRows(last.res.data.refreshToken.sub)) = 1

\* a login has just succeeded for the second user while the first user
\* holds a session of its own
C1_Witness ==
  /\ last.op = "login"
  /\ last.res.ok
  /\ \E r \in rows : r.userId # last.res.data.user.id

\* C3: of the refresh calls that consume the same rid, racing or not, at
\* most one succeeds: no rid is replaced by two issued refresh tokens.
C3_AtMostOneRacingRefreshWins ==
  \A rid \in 1..MaxRid : Cardinality({i \in issued : i.from = rid}) <= 1

\* one of two refresh calls that both read the same live row has just been
\* answered out of its transaction; the other has yet to run its own
C3_Witness ==
  /\ last.op = "refresh"
  /\ last.at = "refresh_tx"
  /\ \E q \in Procs : pc[q] = "refresh_tx" /\ arg[q].rid = last.arg.rid

\* C4 (as claimed): the rotation writes both rows or none.  A transaction
\* that fails answers 500 and leaves the table as it was; one that succeeds
\* has inserted the new live row and revoked the old one; and the
\* transaction fails only when the store does, so that a retry with the
\* old, still unrevoked token succeeds.
C4_AtomicRotationRetrySucceeds ==
  [][\A p \in Procs :
       (pc[p] = "refresh_tx" /\ pc'[p] = "idle") =>
         /\ ~last'.res.ok => (last'.res.code = 500 /\ rows' = rows)
         /\ last'.res.ok =>
              /\ refreshTokenFindUnique(rows', arg[p].rid).revokedAt # NoTime
              /\ refreshTokenFindUnique(rows', loc[p].tokens.refreshId).revokedAt = NoTime
              /\ refreshTokenFindUnique(rows', loc[p].tokens.refreshId).id # NoRid
         /\ last'.res.internal # "StoreError" => last'.res.ok]_vars

\* C5 (as claimed): a refresh with the refresh token a login issued, whose
\* row is unrevoked and unexpired, answers 200 with a new access token and
\* a new refresh token of another rid, and has revoked the old row.
C5_RefreshAfterLoginSucceeds ==
  [][\A t \in LoginIssued :
       LET tokenRecord == refreshTokenFindUnique(rows, t.rid) IN
       (/\ last = NoLast
        /\ last'.op = "refresh"
        /\ last'.arg = t
        /\ last'.res.internal # "StoreError"
        /\ tokenRecord.revokedAt = NoTime
        /\ ~RefreshRowExpired(tokenRecord, now))
       => /\ last'.res.ok
          /\ last'.res.code = 200
          /\ last'.res.data.accessToken # NoToken
          /\ last'.res.data.refreshToken.rid \notin {NoRid, t.rid}
          /\ refreshTokenFindUnique(rows', t.rid).revokedAt # NoTime]_vars

\* C6 (as claimed): a login with the email and password of a registered
\* user answers 200 with an access token and a refresh token, whatever
\* RefreshToken rows of that user exist.
C6_LoginWithCorrectCredentialsSucceeds ==
  (/\ last.op = "login"
   /\ last.res.internal # "StoreError"
   /\ \E u \in users : /\ u.email = last.arg.email
                       /\ bcryptCompare(last.arg.password, u.account.password))
  => /\ last.res.ok
     /\ last.res.code = 200
     /\ last.res.data.accessToken # NoToken
     /\ last.res.data.refreshToken # NoToken

\* C7 (as claimed): a refresh whose row has expiresAt < now answers 401
\* "Invalid refresh token", returns no tokens and writes no row, whether or
\* not the exp claim of the token has elapsed.
C7_ExpiredRowAnswers401 ==
  [][(/\ last = NoLast
      /\ last'.op = "refresh"
      /\ last'.arg.sig = "refresh"
      /\ last'.res.internal # "StoreError"
      /\ \E r \in rows : r.id = last'.arg.rid /\ r.expiresAt < now)
     => /\ last'.res.code = 401
        /\ last'.res.message = "Invalid refresh token"
        /\ last'.res.data = NoData
        /\ rows' = rows]_vars

\* C8 (as claimed): a refresh with a token that is malformed, wrongly
\* signed or expired by its own exp claim answers 401 "Invalid refresh
\* token" and changes no row.
C8_UnverifiableTokenAnswers401 ==
  [][(/\ last = NoLast
      /\ last'.op = "refresh"
      /\ jwtVerify(last'.arg, "refresh", now) # "ok")
     => /\ last'.res.code = 401
        /\ last'.res.message = "Invalid refresh token"
        /\ rows' = rows]_vars

C10_LoginFailuresIndistinguishable ==
  (last.op = "login" /\ last.res.code = 401)
    => loginResponse(last.res) = loginResponse(LoginNotFound)

C12_IdempotentRevoke ==
  [][(/\ last = NoLast
      /\ last'.op = "logout"
      /\ last'.arg.sig = "refresh"
      /\ last'.res.internal # "StoreError"
      /\ refreshTokenFindUnique(rows, last'.arg.rid) # NoRow)
     => /\ last'.res.ok
        /\ last'.res.code = 200
        /\ refreshTokenFindUnique(rows', last'.arg.rid).revokedAt # NoTime
        /\ \A r \in rows' : r.revokedAt = NoTime
              => (r \in rows /\ r.id # last'.arg.rid)]_vars

\* C13 (as claimed): a successful logout with token T leaves the row named
\* by T's rid revoked, a revoked row stays revoked, and every refresh with
\* T made after the logout answers 401.  The row keeps the time of its
\* revocation and logout acts on the rid alone, so "a logout with T has
\* succeeded" is: the row T names is revoked, at a time at which T
\* verified.
C13_LoggedOutTokenIsDead ==
  [][/\ (last = NoLast /\ last'.op = "logout" /\ last'.res.ok)
        => refreshTokenFindUnique(rows', last'.arg.rid).revokedAt # NoTime
     /\ \A r \in rows : r.revokedAt # NoTime
          => refreshTokenFindUnique(rows', r.id).revokedAt # NoTime
     /\ (/\ last = NoLast
         /\ last'.op = "refresh"
         /\ last'.at = "idle"
         /\ last'.res.internal # "StoreError"
         /\ refreshTokenFindUnique(rows, last'.arg.rid).revokedAt # NoTime
         /\ jwtVerify(last'.arg, "refresh",
                      refreshTokenFindUnique(rows, last'.arg.rid).revokedAt) = "ok")
        => (~last'.res.ok /\ last'.res.code = 401)]_vars

\* C14 (as claimed): a logout with a token whose signature does not verify
\* (a string that is not a token, or a token signed with another key)
\* answers 400 "Invalid refresh token" and changes no RefreshToken row.
C14_LogoutBadSignatureAnswers400 ==
  [][(/\ last = NoLast
      /\ last'.op = "logout"
      /\ jwtVerify(last'.arg, "refresh", now) = "JsonWebTokenError")
     => /\ last'.res.code = 400
        /\ last'.res.message = "Invalid refresh token"
        /\ rows' = rows]_vars

\* C15: whether the middleware lets a bearer token through is decided by
\* the token, the access secret and the clock alone: a token that verifies
\* is let through in every state of the store, also after a logout has
\* revoked the session of its user, and stops being let through only when
\* its own exp claim elapses.
C15_AccessTokenOutlivesLogout ==
  (/\ last.op = "createTransaction"
   /\ last.arg.parts = 2
   /\ toLowerCase(last.arg.scheme) = "bearer")
  => (last.req.next <=> verifyJwt(last.arg.token, "access", now) = "ok")

\* the middleware has just let through the access token of a user whose
\* only RefreshToken row a logout has revoked
C15_Witness ==
  /\ last.op = "createTransaction"
  /\ last.req.next
  /\ LiveRows(last.arg.token.sub) = {}
  /\ \E r \in rows : r.userId = last.arg.token.sub /\ r.revokedAt # NoTime

\* C16: the middleware calls the handler only for a header of the form
\* "Bearer <token>" whose token is signed with the access secret, is
\* unexpired and carries a sub; every other request (no header, another
\* format, bad signature, malformed or expired token) is answered 401.
C16_MiddlewareRejectsWith401 ==
  last.op = "createTransaction" =>
    /\ last.req.next =>
         /\ last.arg # NoHeader
         /\ last.arg.parts = 2
         /\ last.arg.scheme \in {"Bearer", "bearer"}
         /\ last.arg.token.sig = "access"
         /\ now < last.arg.token.exp
         /\ last.arg.token.sub # 0
    /\ ~last.req.next => (~last.res.ok /\ last.res.code = 401)

\* the middleware has just answered 401 to a well-formed header whose
\* access token was good until the clock passed its exp claim
C16_Witness ==
  /\ last.op = "createTransaction"
  /\ ~last.req.next
  /\ last.res.code = 401
  /\ last.arg.parts = 2
  /\ last.arg.token.sig = "access"
  /\ last.arg.token.exp = MidExp
  /\ now >= MidExp

\* C17 (as claimed): behind the middleware, the user id the transaction
\* handler reads from the request context is the sub claim of the access
\* token the middleware verified.
C17_HandlerReadsVerifiedSub ==
  (last.op = "createTransaction" /\ last.req.next)
    => transactionUserId(last.req) = last.arg.token.sub

\* C18: a successful verify with token K leaves K consumed, a consumed
\* token stays consumed, and every verify with K made after that fails
\* with "Invalid or expired verification token" and never reaches the
\* update pair.
C18_ActivationTokenUsableOnce ==
  [][/\ (last = NoLast /\ last'.op = "verify" /\ last'.res.ok)
        => activationTokenFindUnique(activationTokens', last'.arg.token).isExpired
     /\ \A k \in activationTokens : k.isExpired
          => activationTokenFindUnique(activationTokens', k.token).isExpired
     /\ (/\ last = NoLast
         /\ last'.op = "verify"
         /\ last'.at = "idle"
         /\ last'.res.internal # "StoreError"
         /\ activationTokenFindUnique(activationTokens, last'.arg.token).isExpired)
        => /\ ~last'.res.ok
           /\ last'.res.message = "Invalid or expired verification token"
     /\ \A p \in Procs : (pc[p] = "idle" /\ pc'[p] = "verify_tx")
          => ~activationTokenFindUnique(activationTokens, arg'[p].token).isExpired]_vars

\* a verify has just been refused for a token that an earlier verify
\* consumed and whose expiry date has not passed
C18_Witness ==
  /\ last.op = "verify"
  /\ last.res = VerifyInvalid
  /\ activationTokenFindUnique(activationTokens, last.arg.token).isExpired
  /\ activationTokenFindUnique(activationTokens, last.arg.token).expiresAt >= now

\* C19: a verify whose token is not found, is consumed, or has expiresAt
\* in the past fails with InvalidOrExpiredToken and does not go on to the
\* update pair; a verify that fails leaves every Account.isVerified and
\* every ActivationToken row as they were.
C19_VerifyRejectsBadToken ==
  [][LET k == activationTokenFindUnique(activationTokens, last'.arg.token)
         bad == k = NoActivationToken \/ k.isExpired \/ k.expiresAt < now
     IN
     /\ (/\ last = NoLast
         /\ last'.op = "verify"
         /\ last'.at = "idle"
         /\ last'.res.internal # "StoreError"
         /\ bad)
        => last'.res = VerifyInvalid
     /\ \A p \in Procs : (pc[p] = "idle" /\ pc'[p] = "verify_tx")
          => LET j == activationTokenFindUnique(activationTokens, arg'[p].token) IN
             j # NoActivationToken /\ ~j.isExpired /\ j.expiresAt >= now
     /\ (last = NoLast /\ last'.op = "verify" /\ ~last'.res.ok)
        => (users' = users /\ activationTokens' = activationTokens)]_vars

\* a verify has just been refused for a token that exists, has not been
\* consumed, and whose expiry date has passed
C19_Witness ==
  /\ last.op = "verify"
  /\ last.res = VerifyInvalid
  /\ \E k \in activationTokens : /\ k.token = last.arg.token
                                   /\ ~k.isExpired
                                   /\ k.expiresAt < now

\* C20: in every state, store failures included, each account is verified
\* exactly when the activation token of its user is consumed.
C20_VerifiedIffConsumed ==
  \A u \in users :
    /\ \E k \in activationTokens : k.userId = u.id
    /\ \A k \in activationTokens :
         k.userId = u.id => (u.account.isVerified <=> k.isExpired)

\* a verify has just succeeded for one user while the other user's verify
\* has read its token and not yet written
C20_Witness ==
  /\ last.op = "verify"
  /\ last.res.ok
  /\ \E u \in users : u.account.isVerified
  /\ \E u \in users : ~u.account.isVerified
  /\ \E p \in Procs : pc[p] = "verify_tx"

\* C21 (as claimed): a register call during which the store fails, at the
\* email lookup or at the create, is answered with status 500 and a message
\* that is not the text of the store's error.
C21_RegisterStoreFailureIsGeneric ==
  (last.op = "register" /\ last.res.internal = "StoreError")
    => /\ registerResponse(last.res).status = 500
       /\ registerResponse(last.res).message # last.res.internal

\* C22 (as claimed): a store failure inside register, login, refresh or
\* logout comes back as a returned result with ok = false and code 500,
\* never as an exception, and the call leaves the stored rows as they were.
C22_ServiceNeverThrows ==
  [][(/\ last = NoLast
      /\ last'.op \in {"register", "login", "refresh", "logout"}
      /\ last'.res.internal = "StoreError")
     => /\ last'.res.message # "<thrown>"
        /\ ~last'.res.ok
        /\ last'.res.code = 500
        /\ users' = users
        /\ rows' = rows]_vars

\* C23: the result and the response body of every register and every
\* login carry, of the user, the fields id, firstName, lastName and email
\* and no other, none of which is the password of the request; the tokens
\* carry their claims only and the message is not the password.
C23_PasswordNeverRoundTrips ==
  last.op \in {"register", "login"} =>
    LET body == IF last.op = "login" THEN loginResponse(last.res).user
                ELSE registerResponse(last.res).user
    IN
    /\ \A u \in {last.res.data.user, body} :
         /\ DOMAIN u = {"id", "firstName", "lastName", "email"}
         /\ last.arg.password \notin {u.firstName, u.lastName, u.email}
    /\ DOMAIN last.res.data.accessToken = {"sig", "sub", "rid", "exp"}
    /\ DOMAIN last.res.data.refreshToken = {"sig", "sub", "rid", "exp"}
    /\ last.res.message # last.arg.password

\* a login has just succeeded for a user whose stored row holds the hash
\* of the password of the request
C23_Witness ==
  /\ last.op = "login"
  /\ last.res.ok
  /\ \E u \in users : /\ u.id = last.res.data.user.id
                       /\ u.account.password = bcryptHash(last.arg.password)

C29_EmailedTokenIsStoredToken ==
  \A m \in mails :
    \E u \in users, k \in activationTokens :
      u.email = m.to /\ k.userId = u.id /\ k.token = m.token

\* C25 (as claimed): with the cookies a successful login sets and nothing
\* else, a request to the refresh path and a request to the logout path
\* both carry the refresh token, and the logout made at once answers 200.
C25_LoginCookieReachesLogout ==
  (last.op = "login" /\ last.res.ok) =>
    LET cookies == loginSetCookies(last.res) IN
    /\ cookieSent(cookies, "/auth/refresh") = last.res.data.refreshToken
    /\ cookieSent(cookies, "/auth/logout") = last.res.data.refreshToken
    /\ logoutController(cookieSent(cookies, "/auth/logout"), rows, now).code = 200

\* C26 (as claimed): the tokens a login mints at time t carry
\* exp = t + TTL of their class and verify at t, so a freshly issued access
\* or refresh token is never already expired.
C26_IssuedTokenLivesForItsTtl ==
  (last.op = "login" /\ last.res.ok) =>
    /\ last.res.data.accessToken.exp = now + AccessTtl
    /\ last.res.data.refreshToken.exp = now + RefreshTtl
    /\ jwtVerify(last.res.data.accessToken, "access", now) = "ok"
    /\ jwtVerify(last.res.data.refreshToken, "refresh", now) = "ok"

\* C27 (as claimed): for every N, parseExpiryToMs gives N*60*1000 for
\* 'Nm', N*3600*1000 for 'Nh' and N*86400*1000 for 'Nd'.
C27_ParsesMinutesHoursDays ==
  (ms # NoMs) =>
    /\ exp.suffix = "m" => ms = exp.n * 60 * 1000
    /\ exp.suffix = "h" => ms = exp.n * 3600 * 1000
    /\ exp.suffix = "d" => ms = exp.n * 86400 * 1000

\* C28: every successful login persists exactly one new RefreshToken row;
\* its id is the rid claim of the returned refresh token, its userId is the
\* user whose credentials were given, its revokedAt is null and its
\* expiresAt is its createdAt plus the refresh TTL.
C28_LoginPersistsOneRow ==
  [][(last'.op = "login" /\ last' # last /\ last'.res.ok) =>
       /\ Cardinality(rows' \ rows) = 1
       /\ rows \subseteq rows'
       /\ \A r \in rows' \ rows :
            /\ r.id = last'.res.data.refreshToken.rid
            /\ r.userId = last'.res.data.user.id
            /\ r.userId = userFindUnique(last'.arg.email).id
            /\ bcryptCompare(last'.arg.password,
                             userFindUnique(last'.arg.email).account.password)
            /\ r.revokedAt = NoTime
            /\ r.createdAt = now
            /\ r.expiresAt = r.createdAt + RefreshTtl]_vars

\* a login made after the clock advanced has just succeeded and its row
\* is stored
C28_Witness ==
  /\ last.op = "login"
  /\ last.res.ok
  /\ now > StartTime
  /\ \E r \in rows : /\ r.id = last.res.data.refreshToken.rid
                      /\ r.createdAt = now
                      /\ r.revokedAt = NoTime

\* C30: a token signed with the refresh secret is never accepted by the
\* auth middleware (the handler is not called and the answer is 401), and
\* a token signed with the access secret is never accepted by refresh or
\* by logout.
C30_TokenClassesSeparated ==
  /\ (last.op = "createTransaction" /\ last.arg.token.sig = "refresh")
       => (~last.req.next /\ last.res.code = 401)
  /\ (last.op \in {"refresh", "logout"} /\ last.arg.sig = "access")
       => ~last.res.ok

\* the middleware has just refused a well-formed Bearer header whose token
\* is signed with the refresh secret, unexpired and carries a sub
C30_Witness ==
  /\ last.op = "createTransaction"
  /\ last.arg.parts = 2
  /\ toLowerCase(last.arg.scheme) = "bearer"
  /\ last.arg.token.sig = "refresh"
  /\ last.arg.token.sub # 0
  /\ last.arg.token.exp > now
  /\ ~last.req.next

\* C32: a login answered 401 (unknown email, wrong password) and a refresh
\* answered 401 (row absent, owner mismatch, revoked, expired) leave the
\* store as it was: no RefreshToken row is created, revoked or modified,
\* no User row changes, and the result carries no token.
C32_RejectedCallsLeaveStoreUnchanged ==
  [][(last' # last /\ last'.op \in {"login", "refresh"} /\ last'.res.code = 401) =>
       /\ rows' = rows
       /\ users' = users
       /\ activationTokens' = activationTokens
       /\ issued' = issued
       /\ ~last'.res.ok
       /\ last'.res.data = NoData]_vars

\* a refresh has just been answered 401 for an expired row that is live
\* and owned by the token's user
C32_Witness ==
  /\ last.op = "refresh"
  /\ last.res.code = 401
  /\ last.res.internal = "Refresh token expired"
  /\ \E r \in rows : /\ r.id = last.arg.rid
                      /\ r.userId = last.arg.sub
                      /\ r.revokedAt = NoTime
                      /\ r.expiresAt < now

C34_LogoutTouchesOnlyItsRow ==
  [][(last' # last /\ last'.op = "logout") =>
       /\ {r.id : r \in rows'} = {r.id : r \in rows}
       /\ \A r \in rows : r.id # last'.arg.rid => r \in rows'
       /\ \A r \in rows : r.id = last'.arg.rid =>
            [r EXCEPT !.revokedAt = IF last'.res.ok THEN now ELSE r.revokedAt] \in rows'
       /\ users' = users
       /\ activationTokens' = activationTokens
       /\ issued' = issued]_vars

\* a logout has just succeeded and revoked its row while the live row of
\* another session is stored, still live
C34_Witness ==
  /\ last.op = "logout"
  /\ last.res.ok
  /\ \E r \in rows : r.id = last.arg.rid /\ r.revokedAt = now
  /\ \E r \in rows : r.id # last.arg.rid /\ r.revokedAt = NoTime

\* C35: when a refresh read the row of its token live and a logout with
\* the same token revoked that row before the refresh ran its transaction,
\* then once the refresh has completed no row descended from the token is
\* live: the refresh created no row that is not revoked and the user
\* holds no live row.
C35_RacingRefreshDoesNotResurrect ==
  [][(/\ last' # last
      /\ last'.op = "refresh"
      /\ last'.at = "refresh_tx"
      /\ refreshTokenFindUnique(rows, last'.arg.rid).revokedAt # NoTime) =>
       /\ \A r \in rows' : r.id \notin {q.id : q \in rows} => r.revokedAt # NoTime
       /\ \A i \in issued' : i.from = last'.arg.rid =>
            refreshTokenFindUnique(rows', i.token.rid).revokedAt # NoTime
       /\ \A r \in rows' : r.userId = last'.arg.sub => r.revokedAt # NoTime]_vars

\* a refresh that had read its row live has just completed its
\* transaction step after a logout revoked that row in between
C35_Witness ==
  /\ last.op = "refresh"
  /\ last.at = "refresh_tx"
  /\ refreshTokenFindUnique(rows, last.arg.rid).userId = last.arg.sub
  /\ refreshTokenFindUnique(rows, last.arg.rid).revokedAt # NoTime
  /\ LiveRows(last.arg.sub) = {}

\* C36 (as claimed): when two register calls for one email both passed
\* their lookup before either created its row, at most one User row with
\* the email is created, and the call whose create comes second is
\* answered 409 "Email already in use" and inserts nothing.
C36_RacingRegisterLoserAnswers409 ==
  [][/\ \A u1, u2 \in users' : u1.email = u2.email => u1 = u2
     /\ (/\ last = NoLast
         /\ last'.op = "register"
         /\ last'.at = "register_create"
         /\ last'.res.internal # "StoreError"
         /\ userFindUnique(last'.arg.email) # NoUser)
        => /\ last'.res.code = 409
           /\ last'.res.message = "Email already in use"
           /\ users' = users]_vars

\* C37: in every step of a refresh, a row it creates has the userId of
\* the row named by the presented token, a token it hands out has that
\* user as sub, and so have the tokens of its result; a refresh whose
\* token names a row of another user than its sub does not succeed and
\* changes no row.
C37_RefreshNeverCrossesUsers ==
  [][(last' # last /\ last'.op = "refresh") =>
       LET old == refreshTokenFindUnique(rows, last'.arg.rid) IN
       /\ \A r \in rows' : r.id \notin {q.id : q \in rows} => r.userId = old.userId
       /\ \A i \in issued' \ issued : i.token.sub = old.userId
       /\ last'.res.ok => /\ last'.res.data.accessToken.sub = old.userId
                          /\ last'.res.data.refreshToken.sub = old.userId
       /\ (old = NoRow \/ old.userId # last'.arg.sub) =>
            (~last'.res.ok /\ rows' = rows /\ issued' = issued)]_vars

\* a refresh has just been refused whose token, verified, names the live
\* and unexpired row of another user than its sub
C37_Witness ==
  /\ last.op = "refresh"
  /\ last.res.code = 401
  /\ jwtVerify(last.arg, "refresh", now) = "ok"
  /\ \E r \in rows : /\ r.id = last.arg.rid
                      /\ r.userId # last.arg.sub
                      /\ r.revokedAt = NoTime
                      /\ r.expiresAt >= now

====
